---------------------------- MODULE Spec2Model ----------------------------
(***************************************************************************)
(* Model of testsuite/rla/run.py, the driver of the RLA round-trip test.   *)
(*                                                                         *)
(* The script is a straight-line Python program.  Its state is the module  *)
(* namespace (imagedir, files, command, f, ret), the position of the       *)
(* interpreter (pc, named after the source line about to be executed) and  *)
(* the position of the list iterator of the for statement (i).             *)
(*                                                                         *)
(* A Python string is modelled as a sequence of tokens and + on strings    *)
(* as \o, so that a separator, a prefix or a reordering shows up in the    *)
(* value.  The calls the script makes to the outside are recorded in the   *)
(* history variables rwCalls, runtestCalls and exitArg.                    *)
(***************************************************************************)
EXTENDS Integers, Sequences, FiniteSets

VARIABLES
    pc,            \* source line about to be executed, or "done" / "aborted"
    bound,         \* names bound so far in the module namespace
    imagedir,      \* line 7
    files,         \* line 8
    command,       \* line 13, 15
    i,             \* number of entries the for statement's iterator has handed out
    f,             \* loop variable of line 14
    ret,           \* line 18: <<>> until runtest.runtest has returned, then <<r>>
    exitArg,       \* line 19: <<>> until sys.exit is called, then <<argument>>
    exitcode,      \* <<>> while the process runs, then <<status seen by the parent>>
    rwCalls,       \* history: arguments of the runtest.rw_command calls made
    runtestCalls,  \* history: arguments of the runtest.runtest calls made
    parent,        \* environment: the value of runtest.parent
    literal,       \* program text: the list literal of lines 8-12
    missing,       \* environment: fixture files absent from the image directory
    toolWorks,     \* environment: whether the conversion tool works
    fault          \* <<>>, or <<[line, k]>>: the uncaught exception raised

vars == <<pc, bound, imagedir, files, command, i, f, ret, exitArg, exitcode,
          rwCalls, runtestCalls, parent, literal, missing, toolWorks, fault>>

-----------------------------------------------------------------------------
(* Bounds of the model. *)

\* runtest.runtest returns an integer within MaxRet of 0 or of 256.
MaxRet == 2

\* At most MaxMissing fixture files are absent.
MaxMissing == 1

RetValues == { r \in (0 - MaxRet)..(256 + MaxRet) : r <= MaxRet \/ r >= 256 - MaxRet }

Parents == { <<"..">>, <<"/work/oiio">> }

-----------------------------------------------------------------------------
(* The program text. *)

\* A copy-and-paste slip in the literal: the second entry repeats the first.
FilesDuplicated ==
    << "ginsu_a_nc10.rla", "ginsu_a_nc10.rla", "ginsu_rgba_nc8.rla",
       "ginsu_rgb_nc16.rla", "imgmake_rgba_nc10.rla", "ginsu_a_nc16.rla",
       "ginsu_rgba_nc10.rla", "ginsu_rgba_ncf.rla", "ginsu_rgb_nc8.rla",
       "imgmake_rgba_nc16.rla", "ginsu_a_nc8.rla", "ginsu_rgba_nc16.rla",
       "ginsu_rgb_nc10.rla", "ginsu_rgb_ncf.rla", "imgmake_rgba_nc8.rla" >>

\* The list literal of lines 8-12.
Files ==
    << "ginsu_a_nc10.rla", "ginsu_a_ncf.rla", "ginsu_rgba_nc8.rla",
       "ginsu_rgb_nc16.rla", "imgmake_rgba_nc10.rla", "ginsu_a_nc16.rla",
       "ginsu_rgba_nc10.rla", "ginsu_rgba_ncf.rla", "ginsu_rgb_nc8.rla",
       "imgmake_rgba_nc16.rla", "ginsu_a_nc8.rla", "ginsu_rgba_nc16.rla",
       "ginsu_rgb_nc10.rla", "ginsu_rgb_ncf.rla", "imgmake_rgba_nc8.rla" >>

\* imagedir = runtest.parent + "/oiio-images"   (line 7)
ImageDir(p) == p \o <<"/oiio-images">>

\* runtest.rw_command (dir, filename): the command fragment of one file, an
\* invocation that names the directory and the file, followed by whatever
\* the fragment embeds to chain it to the next one.
rw_command(dir, filename) ==
    << [kind |-> "rw", dir |-> dir, file |-> filename], [kind |-> "text", text |-> " ; "] >>

\* A separator slipped in between the fragments.
AccumulateSeparated(cmd, frag) ==
    IF cmd = <<>> THEN frag ELSE cmd \o <<[kind |-> "text", text |-> " && "]>> \o frag

\* The fragment put in front of the command instead of behind it.
AccumulatePrepended(cmd, frag) == frag \o cmd

\* command + runtest.rw_command (imagedir, f)   (line 15)
Accumulate(cmd, frag) == cmd \o frag

\* The iterator stops one entry early.
ExhaustedEarly(k, fs) == k >= Len(fs) - 1

\* The list iterator of the for statement has no entry left (line 14).
Exhausted(k, fs) == k >= Len(fs)

\* The status folded to success / failure instead of being passed on.
ExitStatusNormalised(r) == IF r = 0 THEN 0 ELSE 1

\* The exit status a POSIX parent sees of a process that called exit(r):
\* the low 8 bits of r.
ExitStatus(r) == r % 256

-----------------------------------------------------------------------------
(* The environment and the edits of the program text. *)

FileSet == { Files[k] : k \in 1..Len(Files) }

NewFile == "ginsu_rgb_nc12.rla"

RemoveAt(s, k) == [ j \in 1..(Len(s) - 1) |-> IF j < k THEN s[j] ELSE s[j + 1] ]

\* e inserted behind the first k entries of s
InsertAt(s, k, e) ==
    [ j \in 1..(Len(s) + 1) |-> IF j <= k THEN s[j] ELSE IF j = k + 1 THEN e ELSE s[j - 1] ]

Removals == { RemoveAt(Files, k) : k \in 1..Len(Files) }

Insertions == { InsertAt(Files, k, NewFile) : k \in 0..Len(Files) }

Environment ==
    /\ parent \in Parents
    /\ missing \in { m \in SUBSET FileSet : Cardinality(m) <= MaxMissing }
    /\ toolWorks \in BOOLEAN

\* The interpreter is about to execute line 7; nothing is bound yet.
Start ==
    /\ pc = "L7"
    /\ bound = {}
    /\ imagedir = <<>>
    /\ files = <<>>
    /\ command = <<>>
    /\ i = 0
    /\ f = ""
    /\ ret = <<>>
    /\ exitArg = <<>>
    /\ exitcode = <<>>
    /\ rwCalls = <<>>
    /\ runtestCalls = <<>>
    /\ fault = <<>>

Init == Start /\ Environment /\ literal = Files

\* The edited scripts run in a complete fixture directory.
InitEdited ==
    /\ Start
    /\ parent \in Parents
    /\ missing = {}
    /\ toolWorks = TRUE
    /\ literal \in {Files} \cup Removals \cup Insertions

-----------------------------------------------------------------------------
(* The statements of the script. *)

env == <<parent, literal, missing, toolWorks>>

\* line 7: imagedir = runtest.parent + "/oiio-images"
ResolveImageDir ==
    /\ pc = "L7"
    /\ imagedir' = ImageDir(parent)
    /\ bound' = bound \cup {"imagedir"}
    /\ pc' = "L8"
    /\ UNCHANGED <<files, command, i, f, ret, exitArg, exitcode, rwCalls,
                   runtestCalls, fault, env>>

\* lines 8-12: files = [ ... ]
DefineFiles ==
    /\ pc = "L8"
    /\ files' = literal
    /\ bound' = bound \cup {"files"}
    /\ pc' = "L13"
    /\ UNCHANGED <<imagedir, command, i, f, ret, exitArg, exitcode, rwCalls,
                   runtestCalls, fault, env>>

\* line 13: command = ""
InitCommand ==
    /\ pc = "L13"
    /\ command' = <<>>
    /\ bound' = bound \cup {"command"}
    /\ pc' = "L14"
    /\ UNCHANGED <<imagedir, files, i, f, ret, exitArg, exitcode, rwCalls,
                   runtestCalls, fault, env>>

\* The loop written as "while files: f = files.pop(0)": it consumes the list.
ForNextPopping ==
    /\ pc = "L14"
    /\ IF files = <<>>
         THEN /\ pc' = "L18"
              /\ UNCHANGED <<files, i, f, bound>>
         ELSE /\ f' = Head(files)
              /\ files' = Tail(files)
              /\ i' = i + 1
              /\ bound' = bound \cup {"f"}
              /\ pc' = "L15"
    /\ UNCHANGED <<imagedir, command, ret, exitArg, exitcode, rwCalls,
                   runtestCalls, fault, env>>

\* line 14: for f in files: the iterator hands out the next entry of the
\* list, or the loop ends and control passes to line 18.
ForNext ==
    /\ pc = "L14"
    /\ IF Exhausted(i, files)
         THEN /\ pc' = "L18"
              /\ UNCHANGED <<i, f, bound>>
         ELSE /\ f' = files[i + 1]
              /\ i' = i + 1
              /\ bound' = bound \cup {"f"}
              /\ pc' = "L15"
    /\ UNCHANGED <<imagedir, files, command, ret, exitArg, exitcode, rwCalls,
                   runtestCalls, fault, env>>

\* The directory rebuilt from itself in every iteration.
LoopBodyDirRebuilt ==
    /\ pc = "L15"
    /\ imagedir' = ImageDir(imagedir)
    /\ rwCalls' = Append(rwCalls, [dir |-> imagedir', file |-> f])
    /\ command' = Accumulate(command, rw_command(imagedir', f))
    /\ pc' = "L14"
    /\ UNCHANGED <<bound, files, i, f, ret, exitArg, exitcode, runtestCalls,
                   fault, env>>

\* line 15: command = command + runtest.rw_command (imagedir, f),
\* when the call returns.
LoopBody ==
    /\ pc = "L15"
    /\ rwCalls' = Append(rwCalls, [dir |-> imagedir, file |-> f])
    /\ command' = Accumulate(command, rw_command(imagedir, f))
    /\ pc' = "L14"
    /\ UNCHANGED <<bound, imagedir, files, i, f, ret, exitArg, exitcode,
                   runtestCalls, fault, env>>

\* The exception swallowed ("try: ... except: continue"): the loop goes on.
RwCommandRaisesCaught ==
    /\ pc = "L15"
    /\ rwCalls' = Append(rwCalls, [dir |-> imagedir, file |-> f])
    /\ fault' = <<[line |-> "L15", k |-> i]>>
    /\ pc' = "L14"
    /\ UNCHANGED <<bound, imagedir, files, command, i, f, ret, exitArg,
                   exitcode, runtestCalls, env>>

\* line 15, when runtest.rw_command raises: nothing catches the exception,
\* the interpreter prints the traceback and the process ends with status 1.
RwCommandRaises ==
    /\ pc = "L15"
    /\ rwCalls' = Append(rwCalls, [dir |-> imagedir, file |-> f])
    /\ fault' = <<[line |-> "L15", k |-> i]>>
    /\ exitcode' = <<1>>
    /\ pc' = "aborted"
    /\ UNCHANGED <<bound, imagedir, files, command, i, f, ret, exitArg,
                   runtestCalls, env>>

\* The helper called again until it reports success.
CallRunTestRetrying ==
    /\ pc = "L18"
    /\ \E r \in RetValues :
          /\ ret' = <<r>>
          /\ pc' = IF r = 0 THEN "L19" ELSE "L18"
    /\ runtestCalls' = <<command>>
    /\ bound' = bound \cup {"ret"}
    /\ UNCHANGED <<imagedir, files, command, i, f, exitArg, exitcode, rwCalls,
                   fault, env>>

\* line 18: ret = runtest.runtest (command), when the call returns.  The
\* helper is opaque: it may return any integer.
CallRunTest ==
    /\ pc = "L18"
    /\ \E r \in RetValues : ret' = <<r>>
    /\ runtestCalls' = Append(runtestCalls, command)
    /\ bound' = bound \cup {"ret"}
    /\ pc' = "L19"
    /\ UNCHANGED <<imagedir, files, command, i, f, exitArg, exitcode, rwCalls,
                   fault, env>>

\* line 18, when runtest.runtest raises.
RunTestRaises ==
    /\ pc = "L18"
    /\ runtestCalls' = Append(runtestCalls, command)
    /\ fault' = <<[line |-> "L18", k |-> i]>>
    /\ exitcode' = <<1>>
    /\ pc' = "aborted"
    /\ UNCHANGED <<bound, imagedir, files, command, i, f, ret, exitArg,
                   rwCalls, env>>

\* "sys.exit ()": the result dropped.
SysExitNoArgument ==
    /\ pc = "L19"
    /\ exitArg' = <<0>>
    /\ exitcode' = <<0>>
    /\ pc' = "done"
    /\ UNCHANGED <<bound, imagedir, files, command, i, f, ret, rwCalls,
                   runtestCalls, fault, env>>

\* line 19: sys.exit (ret)
SysExit ==
    /\ pc = "L19"
    /\ exitArg' = ret
    /\ exitcode' = <<ExitStatus(ret[1])>>
    /\ pc' = "done"
    /\ UNCHANGED <<bound, imagedir, files, command, i, f, ret, rwCalls,
                   runtestCalls, fault, env>>

Next ==
    \/ ResolveImageDir
    \/ DefineFiles
    \/ InitCommand
    \/ ForNext
    \/ LoopBody
    \/ RwCommandRaises
    \/ CallRunTest
    \/ RunTestRaises
    \/ SysExit

Spec == Init /\ [][Next]_vars

\* The interpreter is the only thread and executes the next statement
\* whenever there is one.
LiveSpec == Init /\ [][Next]_vars /\ WF_vars(Next)

\* The script with one entry removed from, or added to, the list literal.
EditedSpec == InitEdited /\ [][Next]_vars

-----------------------------------------------------------------------------
(* The end-to-end scenario: a helper that judges the command. *)

\* The round trip of one file succeeds when the conversion tool works and
\* the fixture file is there.
SubCommandSucceeds(t) == toolWorks /\ t.file \notin missing

\* What runtest.runtest may return for cmd: 0 exactly when every
\* sub-command of cmd succeeds, and some other integer when one fails.
HelperVerdicts(cmd) ==
    IF \A k \in 1..Len(cmd) : cmd[k].kind = "rw" => SubCommandSucceeds(cmd[k])
      THEN {0}
      ELSE RetValues \ {0}

\* line 18 with that helper.
CallRunTestJudging ==
    /\ pc = "L18"
    /\ \E r \in HelperVerdicts(command) : ret' = <<r>>
    /\ runtestCalls' = Append(runtestCalls, command)
    /\ bound' = bound \cup {"ret"}
    /\ pc' = "L19"
    /\ UNCHANGED <<imagedir, files, command, i, f, exitArg, exitcode, rwCalls,
                   fault, env>>

NextEndToEnd ==
    \/ ResolveImageDir
    \/ DefineFiles
    \/ InitCommand
    \/ ForNext
    \/ LoopBody
    \/ RwCommandRaises
    \/ CallRunTestJudging
    \/ RunTestRaises
    \/ SysExit

EndToEndSpec == Init /\ [][NextEndToEnd]_vars

-----------------------------------------------------------------------------
(* Vocabulary of the properties. *)

RECURSIVE JoinAll(_)
\* The fragments of a sequence, one after the other, with nothing in between.
JoinAll(frags) == IF frags = <<>> THEN <<>> ELSE Head(frags) \o JoinAll(Tail(frags))

\* The fragments of the first n entries of the list fs, for directory d.
Fragments(d, fs, n) == [ k \in 1..n |-> rw_command(d, fs[k]) ]

\* The round-trip invocations of a command, in order.
Invocations(cmd) == SelectSeq(cmd, LAMBDA t : t.kind = "rw")

\* How often a command names a file.
References(cmd, name) == Len(SelectSeq(cmd, LAMBDA t : t.kind = "rw" /\ t.file = name))

\* How many rw_command calls had the file as their argument.
CallsFor(name) == Cardinality({ k \in 1..Len(rwCalls) : rwCalls[k].file = name })

LoopFinished == pc \in {"L18", "L19", "done"} \/ runtestCalls # <<>>

-----------------------------------------------------------------------------
(* The properties. *)

\* C1: the list has 15 entries and no duplicates; once the loop has ended
\* runtest.rw_command has been called 15 times, once for every entry, each
\* filename being the argument of exactly one call; and the command handed
\* to runtest.runtest names each of the 15 filenames exactly once.
C1_OneCommandPerFile ==
    /\ Len(Files) = 15
    /\ Cardinality(FileSet) = 15
    /\ LoopFinished =>
          /\ Len(rwCalls) = 15
          /\ \A name \in FileSet : CallsFor(name) = 1
    /\ runtestCalls # <<>> =>
          /\ Len(Invocations(runtestCalls[1])) = 15
          /\ \A name \in FileSet : References(runtestCalls[1], name) = 1

C1_Witness ==
    /\ pc = "done"
    /\ Len(rwCalls) = 15
    /\ Len(runtestCalls) = 1
    /\ References(runtestCalls[1], "imgmake_rgba_nc8.rla") = 1

\* C2 as claimed: for every integer r that runtest.runtest returns, the
\* exit code of the process equals r.
C2_ExitCodeEqualsRet == pc = "done" => exitcode = ret

\* C2 as amended: the script passes r unchanged to sys.exit, and for every
\* r in 0..255 the exit code of the process equals r.
C2_ExitCodeEqualsRetInRange ==
    pc = "done" =>
        /\ exitArg = ret
        /\ ret[1] \in 0..255 => exitcode = ret

C2_Witness == pc = "done" /\ ret = <<255>> /\ exitcode = <<255>>

\* C3: the string passed to runtest.runtest is the concatenation, from the
\* empty string, of the fragments of files[0], ..., files[14] in list
\* order, with nothing between or around them; and before every iteration
\* the command is the concatenation of the fragments built so far.
C3_AggregateIsConcatenation ==
    /\ pc = "L14" => command = JoinAll(Fragments(imagedir, Files, i))
    /\ runtestCalls # <<>> =>
          runtestCalls[1] = JoinAll(Fragments(imagedir, Files, Len(Files)))

C3_Witness ==
    /\ runtestCalls # <<>>
    /\ Len(runtestCalls[1]) = 2 * Len(Files)
    /\ runtestCalls[1][29].file = Files[15]

\* C4: with one filename removed from, or added to, the list literal, the
\* aggregate command has one round-trip sub-command less, or more, than
\* that of the unedited list, and is the unedited aggregate with that
\* file's fragment taken out, or put in: the other fragments keep their
\* content and their relative order.
C4_EditChangesOneFragment ==
    runtestCalls # <<>> =>
        LET original == Fragments(imagedir, Files, Len(Files))
            edited == runtestCalls[1]
        IN  /\ \A k \in 1..Len(Files) :
                  literal = RemoveAt(Files, k) =>
                      /\ Len(Invocations(edited)) = Len(Files) - 1
                      /\ edited = JoinAll(RemoveAt(original, k))
            /\ \A k \in 0..Len(Files) :
                  literal = InsertAt(Files, k, NewFile) =>
                      /\ Len(Invocations(edited)) = Len(Files) + 1
                      /\ edited = JoinAll(InsertAt(original, k, rw_command(imagedir, NewFile)))

C4_Witness ==
    /\ pc = "done"
    /\ literal = RemoveAt(Files, 5)
    /\ Len(Invocations(runtestCalls[1])) = 14
    /\ References(runtestCalls[1], Files[5]) = 0

C4_WitnessInsertion ==
    /\ pc = "done"
    /\ literal = InsertAt(Files, 15, NewFile)
    /\ Len(Invocations(runtestCalls[1])) = 16
    /\ References(runtestCalls[1], NewFile) = 1

\* C5: the events occur in the order list defined, 15 rw_command calls,
\* one runtest.runtest call, sys.exit: rw_command is called only once the
\* list is defined, runtest.runtest is called at most once and only with
\* the command that holds the last fragment, and sys.exit (ret) is reached
\* only after that call has returned.
C5_EventOrder ==
    /\ rwCalls # <<>> => "files" \in bound /\ "command" \in bound
    /\ Len(runtestCalls) <= 1
    /\ runtestCalls # <<>> =>
          /\ Len(rwCalls) = 15
          /\ i = 15
          /\ rwCalls[15].file = Files[15]
          /\ runtestCalls[1] = command
    /\ ret # <<>> => Len(runtestCalls) = 1
    /\ exitArg # <<>> => ret # <<>> /\ Len(runtestCalls) = 1 /\ pc = "done"

C5_Witness == pc = "done" /\ exitArg # <<>> /\ Len(runtestCalls) = 1 /\ Len(rwCalls) = 15

\* C6: when rw_command raises while the k-th filename is processed, the
\* script is aborted there: no call is made for a later filename, the
\* command holds the fragments of the k - 1 files before it, runtest.runtest
\* is not called, sys.exit (ret) is not reached, and nothing is retried.
C6_FaultAborts ==
    (fault # <<>> /\ fault[1].line = "L15") =>
        LET k == fault[1].k
        IN  /\ pc = "aborted"
            /\ i = k
            /\ Len(rwCalls) = k
            /\ command = JoinAll(Fragments(imagedir, Files, k - 1))
            /\ runtestCalls = <<>>
            /\ ret = <<>>
            /\ exitArg = <<>>

C6_Witness ==
    /\ pc = "aborted"
    /\ fault = <<[line |-> "L15", k |-> 7]>>
    /\ Len(rwCalls) = 7
    /\ Len(Invocations(command)) = 6

C7_WitnessSuccess == pc = "done" /\ missing = {} /\ toolWorks /\ exitcode = <<0>>

\* C8: once defined, the list is never changed: no step adds, removes,
\* reorders or rewrites an entry; a step of the loop changes only the
\* command, the loop variable and the iterator, the helper call only ret.
C8_FilesImmutable ==
    [][ /\ "files" \in bound => files' = files
        /\ pc \in {"L14", "L15"} => UNCHANGED <<imagedir, files, ret, exitArg>>
        /\ pc \in {"L18", "L19"} => UNCHANGED <<imagedir, files, command, i, f>>
      ]_vars

C8_Witness == pc = "done" /\ files = Files /\ i = 15 /\ Len(command) = 30

\* C9: every rw_command call receives the same directory argument, the
\* value runtest.parent + "/oiio-images" computed once before the loop.
C9_SameDirectory ==
    /\ "imagedir" \in bound => imagedir = parent \o <<"/oiio-images">>
    /\ \A k \in 1..Len(rwCalls) : rwCalls[k].dir = parent \o <<"/oiio-images">>
    /\ \A j, k \in 1..Len(Invocations(command)) :
          Invocations(command)[j].dir = Invocations(command)[k].dir

C9_Witness ==
    /\ Len(rwCalls) = 15
    /\ rwCalls[1].dir = <<"/work/oiio", "/oiio-images">>
    /\ rwCalls[15].dir = <<"/work/oiio", "/oiio-images">>

\* C10: the script always terminates: the iterator never goes past the 15
\* entries, and every run ends, with sys.exit or with an uncaught
\* exception.
C10_Terminates ==
    /\ [](i <= 15)
    /\ <>(pc = "done" \/ pc = "aborted")

C10_Witness == pc = "done" /\ i = 15 /\ exitcode # <<>>

=============================================================================
